---- MODULE Spec2Model ----
(***************************************************************************)
(* Model of app/static/chatkit.js, the ChatKit bootstrap script: the       *)
(* registration poll, the session request, the mount, the error overlay    *)
(* with its retry control, and the light/dark theme toggle.                *)
(*                                                                         *)
(* One action is one handler run of the browser's event loop: the code     *)
(* from a handler's start (or from the resumption of an await) up to the   *)
(* next await or return.  initChatKit suspends at the 100ms polling wait   *)
(* (line 112) and inside createSession (lines 72, 87, 91); the awaits of   *)
(* createSession touch only locals of the attempt, so the arrival of the   *)
(* response and the parsing of its body are one step, Respond.             *)
(***************************************************************************)
EXTENDS Integers, Sequences, FiniteSets, TLC

VARIABLES
  phase,           \* "init": script not run; "deferred": waiting for DOMContentLoaded; "ready"
  dom,             \* which of the five elements getElementById found (lines 15-19)
  registered,      \* customElements.get('openai-chatkit') is defined
  prefersDark,     \* window.matchMedia('(prefers-color-scheme: dark)').matches
  dark,            \* document.documentElement.classList contains 'dark'
  stored,          \* localStorage item 'theme'
  overlayDisplay,  \* errorOverlay.style.display
  errorText,       \* errorMessage.textContent
  retryDisplay,    \* retryButton.style.display
  retryOnclick,    \* retryButton.onclick
  container,       \* children of chatkitContainer, in order
  chatkitElement,  \* the module-level reference (line 21)
  widget,          \* the 'openai-chatkit' elements created so far, by creating attempt
  pc,              \* position of each initChatKit invocation
  attempts,        \* the local counter of each invocation (line 105)
  outcome,         \* how each invocation ended
  timers,          \* pending setTimeout(resolve, 100) callbacks, in firing order
  requests,        \* invocations that issued the POST to the session endpoint
  nextId,          \* number of initChatKit invocations so far, plus one
  toggleLog,       \* <<dark, stored>> as they were before each of the last two toggleTheme runs
  afterFailure     \* invocations started when an earlier one had already ended in an error

vars == <<phase, dom, registered, prefersDark, dark, stored, overlayDisplay,
          errorText, retryDisplay, retryOnclick, container, chatkitElement,
          widget, pc, attempts, outcome, timers, requests, nextId,
          toggleLog, afterFailure>>

(***************************************************************************)
(* Bounds of the model.                                                    *)
(***************************************************************************)
\* total number of initChatKit invocations (the initial one and the restarts)
MaxInvocations == 2
\* number of invocations that may be suspended at the polling wait at the same time
MaxPolling == 1

Invocations == 1..MaxInvocations

(***************************************************************************)
(* Program constants.                                                      *)
(***************************************************************************)
maxAttempts == 50

Null == 0
\* content of the container that is not a widget (markup present before the first mount)
Markup == -1
Undefined == "<undefined>"

ComponentMsg == "ChatKit component not loaded. Please refresh the page."
InitPrefix == "Failed to initialize ChatKit: "

\* messages of errors thrown by the platform and by the widget, not by this script
NetworkMsg == "Failed to fetch"
ParseMsg == "Unexpected token < in JSON at position 0"
SetterMsg == "Invalid session token"

(***************************************************************************)
(* The page: which elements exist when the script looks them up.           *)
(***************************************************************************)
AllPresent ==
  [container |-> TRUE, overlay |-> TRUE, message |-> TRUE, retry |-> TRUE, toggle |-> TRUE]

DomCases ==
  {AllPresent,
   [AllPresent EXCEPT !.container = FALSE],
   [AllPresent EXCEPT !.overlay = FALSE],
   [AllPresent EXCEPT !.message = FALSE],
   [AllPresent EXCEPT !.retry = FALSE],
   [AllPresent EXCEPT !.toggle = FALSE]}

(***************************************************************************)
(* The session endpoint: what a POST can come back with.                   *)
(***************************************************************************)
ErrStatuses == {400, 503}
ErrTexts == {"Invalid workflow"}
\* the endpoint creates a new session for every request
SessionFor(a) ==
  [id |-> "sess_" \o ToString(a), client_secret |-> "secret_" \o ToString(a)]
NoSession == [id |-> Undefined, client_secret |-> Undefined]

\* net: fetch rejected; json: the body parses as JSON; error, id, client_secret: fields of the body
Response(net, status, json, error, s) ==
  [net |-> net, status |-> status, json |-> json, error |-> error,
   id |-> s.id, client_secret |-> s.client_secret]

NetworkFailure == Response(TRUE, 0, FALSE, Undefined, NoSession)

\* the responses the request of invocation a can get
Responses(a) ==
  {NetworkFailure}
  \cup {Response(FALSE, st, FALSE, Undefined, NoSession) : st \in ErrStatuses \cup {200}}
  \cup {Response(FALSE, st, TRUE, e, NoSession) : st \in ErrStatuses, e \in ErrTexts \cup {"", Undefined}}
  \cup {Response(FALSE, 200, TRUE, Undefined, SessionFor(a))}

\* response.ok
Ok(r) == r.status \in 200..299

\* variant of SessionErrorMessage: the fallback is cut short after the status
SessionErrorMessage_short(r) ==
  IF r.error \notin {Undefined, ""}
    THEN r.error
    ELSE "HTTP " \o ToString(r.status)

\* error.error || `HTTP ${response.status}: Failed to create session`
SessionErrorMessage(r) ==
  IF r.error \notin {Undefined, ""}
    THEN r.error
    ELSE "HTTP " \o ToString(r.status) \o ": Failed to create session"

\* what createSession does with response r: the error it throws, or the session it returns
createSession(r) ==
  IF r.net THEN [threw |-> TRUE, message |-> NetworkMsg, session |-> NoSession]
  ELSE IF ~r.json THEN [threw |-> TRUE, message |-> ParseMsg, session |-> NoSession]
  ELSE IF ~Ok(r) THEN [threw |-> TRUE, message |-> SessionErrorMessage(r), session |-> NoSession]
  ELSE [threw |-> FALSE, message |-> "",
        session |-> [id |-> r.id, client_secret |-> r.client_secret]]

(***************************************************************************)
(* Helpers of the script.                                                  *)
(***************************************************************************)
ThemeName(isDark) == IF isDark THEN "dark" ELSE "light"

NoWidget == [created |-> FALSE, sessionToken |-> Undefined, theme |-> Undefined]

showError(message, retryable) ==
  /\ errorText' = IF dom.message THEN message ELSE errorText
  /\ overlayDisplay' = IF dom.overlay THEN "flex" ELSE overlayDisplay
  /\ retryDisplay' = IF dom.retry /\ ~retryable THEN "none" ELSE retryDisplay

hideError ==
  overlayDisplay' = IF dom.overlay THEN "none" ELSE overlayDisplay

\* the widgets w after updateChatkitTheme ran with chatkitElement = ref and
\* the document flag isDark
updateChatkitTheme(w, ref, isDark) ==
  IF ref # Null THEN [w EXCEPT ![ref].theme = ThemeName(isDark)] ELSE w

TypeOK ==
  /\ phase \in {"init", "deferred", "ready"}
  /\ dom \in DomCases
  /\ registered \in BOOLEAN /\ prefersDark \in BOOLEAN /\ dark \in BOOLEAN
  /\ stored \in {Undefined, "dark", "light"}
  /\ overlayDisplay \in {"none", "flex"}
  /\ retryDisplay \in {"", "none"}
  /\ retryOnclick \in {"null", "initChatKit"}
  /\ chatkitElement \in {Null} \cup Invocations
  /\ pc \in [Invocations -> {"idle", "wait", "fetch", "done"}]
  /\ attempts \in [Invocations -> 0..maxAttempts]
  /\ outcome \in [Invocations -> {"none", "timeout", "failed", "mounted", "unmounted"}]
  /\ requests \subseteq Invocations
  /\ nextId \in 1..(MaxInvocations + 1)
  /\ Len(toggleLog) <= 2
  /\ afterFailure \subseteq Invocations

\* the page before the script runs, with the given elements, container content and theme inputs
Page(d, c, prefer, isDark, saved) ==
  /\ phase = "init"
  /\ dom = d
  /\ registered = FALSE
  /\ prefersDark = prefer
  /\ dark = isDark
  /\ stored = saved
  /\ overlayDisplay = "none"
  /\ errorText = ""
  /\ retryDisplay = ""
  /\ retryOnclick = "null"
  /\ container = c
  /\ chatkitElement = Null
  /\ widget = [a \in Invocations |-> NoWidget]
  /\ pc = [a \in Invocations |-> "idle"]
  /\ attempts = [a \in Invocations |-> 0]
  /\ outcome = [a \in Invocations |-> "none"]
  /\ timers = <<>>
  /\ requests = {}
  /\ nextId = 1
  /\ toggleLog = <<>>
  /\ afterFailure = {}

\* every page variant, with placeholder markup in the container, first visit in light mode
Init ==
  \E d \in DomCases : Page(d, <<Markup>>, FALSE, FALSE, Undefined)

\* the complete page, every combination of the theme inputs
InitTheme ==
  \E prefer \in BOOLEAN, isDark \in BOOLEAN, saved \in {Undefined, "dark", "light"} :
    Page(AllPresent, <<Markup>>, prefer, isDark, saved)

(***************************************************************************)
(* initChatKit, lines 100-154.                                             *)
(***************************************************************************)
\* variant of PollFrom: hideError of line 123 is missing
PollFrom_noHide(a, n, q) ==
  IF ~registered /\ n < maxAttempts
    THEN /\ pc' = [pc EXCEPT ![a] = "wait"]
         /\ attempts' = [attempts EXCEPT ![a] = n]
         /\ timers' = Append(q, a)
         /\ UNCHANGED <<outcome, requests, errorText, overlayDisplay, retryDisplay>>
  ELSE IF ~registered
    THEN /\ showError(ComponentMsg, TRUE)
         /\ pc' = [pc EXCEPT ![a] = "done"]
         /\ attempts' = [attempts EXCEPT ![a] = n]
         /\ outcome' = [outcome EXCEPT ![a] = "timeout"]
         /\ timers' = q
         /\ UNCHANGED requests
  ELSE /\ pc' = [pc EXCEPT ![a] = "fetch"]
       /\ attempts' = [attempts EXCEPT ![a] = 0]
       /\ requests' = requests \cup {a}
       /\ timers' = q
       /\ UNCHANGED <<outcome, errorText, overlayDisplay, retryDisplay>>

\* variant of PollFrom: the return of line 119 is missing
PollFrom_noReturn(a, n, q) ==
  IF ~registered /\ n < maxAttempts
    THEN /\ pc' = [pc EXCEPT ![a] = "wait"]
         /\ attempts' = [attempts EXCEPT ![a] = n]
         /\ timers' = Append(q, a)
         /\ UNCHANGED <<outcome, requests, errorText, overlayDisplay, retryDisplay>>
  ELSE /\ errorText' = IF ~registered /\ dom.message THEN ComponentMsg ELSE errorText
       /\ hideError
       /\ pc' = [pc EXCEPT ![a] = "fetch"]
       /\ attempts' = [attempts EXCEPT ![a] = 0]
       /\ requests' = requests \cup {a}
       /\ timers' = q
       /\ UNCHANGED <<outcome, retryDisplay>>

\* variant of PollFrom: the loop test of line 108 reads attempts <= maxAttempts
PollFrom_oneMore(a, n, q) ==
  IF ~registered /\ n <= maxAttempts
    THEN /\ pc' = [pc EXCEPT ![a] = "wait"]
         /\ attempts' = [attempts EXCEPT ![a] = n]
         /\ timers' = Append(q, a)
         /\ UNCHANGED <<outcome, requests, errorText, overlayDisplay, retryDisplay>>
  ELSE IF ~registered
    THEN /\ showError(ComponentMsg, TRUE)
         /\ pc' = [pc EXCEPT ![a] = "done"]
         /\ attempts' = [attempts EXCEPT ![a] = n]
         /\ outcome' = [outcome EXCEPT ![a] = "timeout"]
         /\ timers' = q
         /\ UNCHANGED requests
  ELSE /\ hideError
       /\ pc' = [pc EXCEPT ![a] = "fetch"]
       /\ attempts' = [attempts EXCEPT ![a] = 0]
       /\ requests' = requests \cup {a}
       /\ timers' = q
       /\ UNCHANGED <<outcome, errorText, retryDisplay>>

\* Lines 108-126 from the loop test on, for invocation a with counter n and
\* the pending timers q: wait again, report the timeout, or request a session.
PollFrom(a, n, q) ==
  IF ~registered /\ n < maxAttempts
    THEN /\ pc' = [pc EXCEPT ![a] = "wait"]
         /\ attempts' = [attempts EXCEPT ![a] = n]
         /\ timers' = Append(q, a)
         /\ UNCHANGED <<outcome, requests, errorText, overlayDisplay, retryDisplay>>
  ELSE IF ~registered
    THEN /\ showError(ComponentMsg, TRUE)
         /\ pc' = [pc EXCEPT ![a] = "done"]
         /\ attempts' = [attempts EXCEPT ![a] = n]
         /\ outcome' = [outcome EXCEPT ![a] = "timeout"]
         /\ timers' = q
         /\ UNCHANGED requests
  ELSE /\ hideError
       /\ pc' = [pc EXCEPT ![a] = "fetch"]
       /\ attempts' = [attempts EXCEPT ![a] = 0]
       /\ requests' = requests \cup {a}
       /\ timers' = q
       /\ UNCHANGED <<outcome, errorText, retryDisplay>>

\* variant of initChatKit: a new invocation abandons the suspended ones
initChatKit_abortsOthers ==
  /\ nextId <= MaxInvocations
  /\ Len(timers) < MaxPolling
  /\ nextId' = nextId + 1
  /\ afterFailure' = IF \E b \in Invocations : outcome[b] \in {"timeout", "failed"}
                       THEN afterFailure \cup {nextId}
                       ELSE afterFailure
  /\ pc' = [a \in Invocations |->
              IF a = nextId THEN (IF registered THEN "fetch" ELSE "wait")
              ELSE IF pc[a] \in {"wait", "fetch"} THEN "done" ELSE pc[a]]
  /\ attempts' = [attempts EXCEPT ![nextId] = 0]
  /\ timers' = IF registered THEN <<>> ELSE <<nextId>>
  /\ requests' = IF registered THEN requests \cup {nextId} ELSE requests
  /\ overlayDisplay' = IF registered /\ dom.overlay THEN "none" ELSE overlayDisplay
  /\ UNCHANGED <<outcome, errorText, retryDisplay, retryOnclick, container,
                 chatkitElement, widget>>

\* a call of initChatKit: a new invocation runs up to its first await or return
initChatKit ==
  /\ nextId <= MaxInvocations
  /\ Len(timers) < MaxPolling
  /\ nextId' = nextId + 1
  /\ afterFailure' = IF \E b \in Invocations : outcome[b] \in {"timeout", "failed"}
                       THEN afterFailure \cup {nextId}
                       ELSE afterFailure
  /\ PollFrom(nextId, 0, timers)
  /\ UNCHANGED <<retryOnclick, container, chatkitElement, widget>>

\* variant of TimerFires: line 112 is missing, the counter is not incremented
TimerFires_noCount ==
  /\ timers # <<>>
  /\ PollFrom(Head(timers), attempts[Head(timers)], Tail(timers))
  /\ UNCHANGED <<phase, dom, registered, prefersDark, dark, stored, retryOnclick,
                 container, chatkitElement, widget, nextId, toggleLog, afterFailure>>

\* the 100ms timer of the oldest waiting invocation fires: lines 113-126
TimerFires ==
  /\ timers # <<>>
  /\ PollFrom(Head(timers), attempts[Head(timers)] + 1, Tail(timers))
  /\ UNCHANGED <<phase, dom, registered, prefersDark, dark, stored, retryOnclick,
                 container, chatkitElement, widget, nextId, toggleLog, afterFailure>>

\* variant of Catch: lines 150-152 are missing, the retry control is not wired
Catch_noWire(a, message) ==
  /\ showError(InitPrefix \o message, TRUE)
  /\ retryOnclick' = retryOnclick
  /\ pc' = [pc EXCEPT ![a] = "done"]
  /\ outcome' = [outcome EXCEPT ![a] = "failed"]

\* the catch block, lines 147-153
Catch(a, message) ==
  /\ showError(InitPrefix \o message, TRUE)
  /\ retryOnclick' = IF dom.retry THEN "initChatKit" ELSE retryOnclick
  /\ pc' = [pc EXCEPT ![a] = "done"]
  /\ outcome' = [outcome EXCEPT ![a] = "failed"]

\* variant of Mount: line 141 is missing, the container is not emptied
Mount_noClear(a, s, throws) ==
  /\ chatkitElement' = a
  /\ IF throws
       THEN /\ widget' = [widget EXCEPT ![a].created = TRUE]
            /\ Catch(a, SetterMsg)
            /\ UNCHANGED container
       ELSE /\ widget' = updateChatkitTheme(
                           [widget EXCEPT ![a].created = TRUE,
                                          ![a].sessionToken = s.client_secret], a, dark)
            /\ container' = IF dom.container THEN Append(container, a) ELSE container
            /\ pc' = [pc EXCEPT ![a] = "done"]
            /\ outcome' = [outcome EXCEPT ![a] = IF dom.container THEN "mounted" ELSE "unmounted"]
            /\ UNCHANGED <<errorText, overlayDisplay, retryDisplay, retryOnclick>>

\* variant of Mount: line 131 takes session.id
Mount_usesId(a, s, throws) ==
  /\ chatkitElement' = a
  /\ IF throws
       THEN /\ widget' = [widget EXCEPT ![a].created = TRUE]
            /\ Catch(a, SetterMsg)
            /\ UNCHANGED container
       ELSE /\ widget' = updateChatkitTheme(
                           [widget EXCEPT ![a].created = TRUE,
                                          ![a].sessionToken = s.id], a, dark)
            /\ container' = IF dom.container THEN <<a>> ELSE container
            /\ pc' = [pc EXCEPT ![a] = "done"]
            /\ outcome' = [outcome EXCEPT ![a] = IF dom.container THEN "mounted" ELSE "unmounted"]
            /\ UNCHANGED <<errorText, overlayDisplay, retryDisplay, retryOnclick>>

\* lines 129-146 with session s: create, configure, theme and mount the widget;
\* throws: the sessionToken setter of the widget throws at line 131
Mount(a, s, throws) ==
  /\ chatkitElement' = a
  /\ IF throws
       THEN /\ widget' = [widget EXCEPT ![a].created = TRUE]
            /\ Catch(a, SetterMsg)
            /\ UNCHANGED container
       ELSE /\ widget' = updateChatkitTheme(
                           [widget EXCEPT ![a].created = TRUE,
                                          ![a].sessionToken = s.client_secret], a, dark)
            /\ container' = IF dom.container THEN <<a>> ELSE container
            /\ pc' = [pc EXCEPT ![a] = "done"]
            /\ outcome' = [outcome EXCEPT ![a] = IF dom.container THEN "mounted" ELSE "unmounted"]
            /\ UNCHANGED <<errorText, overlayDisplay, retryDisplay, retryOnclick>>

\* variant of Respond: the catch also empties the container and drops the reference
Respond_cleanup(a, r, throws) ==
  /\ pc[a] = "fetch"
  /\ IF createSession(r).threw
       THEN /\ ~throws
            /\ Catch(a, createSession(r).message)
            /\ chatkitElement' = Null
            /\ container' = IF dom.container THEN <<>> ELSE container
            /\ UNCHANGED widget
       ELSE Mount(a, createSession(r).session, throws)
  /\ UNCHANGED <<phase, dom, registered, prefersDark, dark, stored, attempts,
                 timers, requests, nextId, toggleLog, afterFailure>>

\* the session request of invocation a settles with r: lines 86-97 and 126-153
Respond(a, r, throws) ==
  /\ pc[a] = "fetch"
  /\ IF createSession(r).threw
       THEN /\ ~throws
            /\ Catch(a, createSession(r).message)
            /\ UNCHANGED <<chatkitElement, widget, container>>
       ELSE Mount(a, createSession(r).session, throws)
  /\ UNCHANGED <<phase, dom, registered, prefersDark, dark, stored, attempts,
                 timers, requests, nextId, toggleLog, afterFailure>>

(***************************************************************************)
(* Theme, lines 42-67.                                                     *)
(***************************************************************************)
\* variant of toggleTheme: the value stored is the one before the flip
toggleTheme_storesOld ==
  /\ phase = "ready"
  /\ dom.toggle
  /\ dark' = ~dark
  /\ stored' = ThemeName(dark)
  /\ widget' = updateChatkitTheme(widget, chatkitElement, dark')
  /\ toggleLog' = IF Len(toggleLog) < 2
                    THEN Append(toggleLog, <<dark, stored>>)
                    ELSE <<toggleLog[2], <<dark, stored>>>>
  /\ UNCHANGED <<phase, dom, registered, prefersDark, overlayDisplay, errorText,
                 retryDisplay, retryOnclick, container, chatkitElement, pc,
                 attempts, outcome, timers, requests, nextId, afterFailure>>

toggleTheme ==
  /\ phase = "ready"
  /\ dom.toggle
  /\ dark' = ~dark
  /\ stored' = ThemeName(dark')
  /\ widget' = updateChatkitTheme(widget, chatkitElement, dark')
  /\ toggleLog' = IF Len(toggleLog) < 2
                    THEN Append(toggleLog, <<dark, stored>>)
                    ELSE <<toggleLog[2], <<dark, stored>>>>
  /\ UNCHANGED <<phase, dom, registered, prefersDark, overlayDisplay, errorText,
                 retryDisplay, retryOnclick, container, chatkitElement, pc,
                 attempts, outcome, timers, requests, nextId, afterFailure>>

\* lines 48-60; the click listener exists from here on when the toggle control does
initializeTheme ==
  dark' = (dark \/ (IF stored # Undefined THEN stored = "dark" ELSE prefersDark))

(***************************************************************************)
(* Start-up, lines 156-168, and the environment.                           *)
(***************************************************************************)
\* the script runs with document.readyState other than 'loading'
RunScriptReady ==
  /\ phase = "init"
  /\ phase' = "ready"
  /\ initializeTheme
  /\ initChatKit
  /\ UNCHANGED <<dom, registered, prefersDark, stored, toggleLog>>

\* the script runs while the document is loading: only the listener and
\* window.retryChatKit are set up
RunScriptLoading ==
  /\ phase = "init"
  /\ phase' = "deferred"
  /\ UNCHANGED <<dom, registered, prefersDark, dark, stored, overlayDisplay,
                 errorText, retryDisplay, retryOnclick, container, chatkitElement,
                 widget, pc, attempts, outcome, timers, requests, nextId,
                 toggleLog, afterFailure>>

DOMContentLoaded ==
  /\ phase = "deferred"
  /\ phase' = "ready"
  /\ initializeTheme
  /\ initChatKit
  /\ UNCHANGED <<dom, registered, prefersDark, stored, toggleLog>>

\* a call of window.retryChatKit from outside the script
RetryChatKit ==
  /\ phase # "init"
  /\ initChatKit
  /\ UNCHANGED <<phase, dom, registered, prefersDark, dark, stored, toggleLog>>

\* a click on the retry control
RetryClick ==
  /\ dom.retry
  /\ retryDisplay # "none"
  /\ retryOnclick = "initChatKit"
  /\ initChatKit
  /\ UNCHANGED <<phase, dom, registered, prefersDark, dark, stored, toggleLog>>

\* the vendor script defines the 'openai-chatkit' custom element
Register ==
  /\ ~registered
  /\ registered' = TRUE
  /\ UNCHANGED <<phase, dom, prefersDark, dark, stored, overlayDisplay, errorText,
                 retryDisplay, retryOnclick, container, chatkitElement, widget, pc,
                 attempts, outcome, timers, requests, nextId, toggleLog, afterFailure>>

SessionResponse ==
  \E a \in Invocations, throws \in BOOLEAN : \E r \in Responses(a) : Respond(a, r, throws)

Next ==
  \/ RunScriptReady
  \/ RunScriptLoading
  \/ DOMContentLoaded
  \/ RetryChatKit
  \/ RetryClick
  \/ Register
  \/ TimerFires
  \/ SessionResponse
  \/ toggleTheme

Spec == Init /\ [][Next]_vars

SpecTheme == InitTheme /\ [][Next]_vars

\* the page that meets the DOM contract: all five elements present
InitLive ==
  Page(AllPresent, <<Markup>>, FALSE, FALSE, Undefined)

\* every timer set at line 111 fires and every request issued at line 71
\* settles, by a response or by a rejection
SpecLive ==
  /\ InitLive
  /\ [][Next]_vars
  /\ WF_vars(TimerFires)
  /\ \A a \in Invocations :
       WF_vars(pc[a] = "fetch" /\ \E throws \in BOOLEAN : \E r \in Responses(a) :
                                    Respond(a, r, throws))


(***************************************************************************)
(* Properties.                                                             *)
(***************************************************************************)
\* invocations suspended at the polling wait or at the session request
InFlight == {a \in Invocations : pc[a] \in {"wait", "fetch"}}

\* positions of the container that hold a widget
WidgetsIn(c) == {i \in 1..Len(c) : c[i] \in Invocations}

\* the step in which the timer of a's 50th wait fires and the element is still
\* unregistered: every check of the invocation, the final one included, failed
LastCheckFails(a) ==
  /\ pc[a] = "wait"
  /\ attempts[a] = maxAttempts - 1
  /\ ~registered
  /\ pc'[a] # "wait"

\* the step in which the session request of a ends in the catch block
FailsRetryably(a) ==
  /\ pc[a] = "fetch"
  /\ outcome'[a] = "failed"

\* C1: an invocation that finds the custom element unregistered at all 51
\* checks issues no session request, creates and mounts no widget, shows the
\* error overlay and returns; having returned, it never does any of these.
C1_TimeoutOnlyShowsError ==
  [][\A a \in Invocations :
       /\ LastCheckFails(a) =>
            /\ requests' = requests
            /\ widget' = widget
            /\ container' = container
            /\ chatkitElement' = chatkitElement
            /\ dom.overlay => overlayDisplay' = "flex"
            /\ pc'[a] = "done"
       /\ (pc[a] = "done" /\ a \notin requests) =>
            /\ pc'[a] = "done"
            /\ a \notin requests'
            /\ ~widget'[a].created]_vars

C1_Witness ==
  \E a \in Invocations :
    /\ pc[a] = "done"
    /\ attempts[a] = maxAttempts
    /\ a \notin requests
    /\ overlayDisplay = "flex"

\* C2: right after the invocation that hit the polling ceiling returns, the
\* retry control is hidden and was not wired; after a retryable failure the
\* retry control is visible and its click handler is initChatKit.
C2_TimeoutHidesRetry ==
  [][\A a \in Invocations :
       /\ (LastCheckFails(a) /\ dom.retry) =>
            /\ retryDisplay' = "none"
            /\ retryOnclick' = retryOnclick
       /\ (FailsRetryably(a) /\ dom.retry) =>
            /\ retryDisplay' # "none"
            /\ retryOnclick' = "initChatKit"]_vars

\* C3 as stated: after a non-success response with JSON body {"error": X}, X
\* non-empty, the message holder shows exactly X; without an error field it
\* shows exactly "HTTP <status>: Failed to create session".
C3_ShowsBackendMessageOnly ==
  [][\A a \in Invocations : (FailsRetryably(a) /\ dom.message) =>
     \A r \in Responses(a) :
       (/\ ~r.net /\ ~Ok(r) /\ r.json /\ r.error # ""
        /\ Respond(a, r, FALSE)) =>
         errorText' = IF r.error # Undefined
                        THEN r.error
                        ELSE "HTTP " \o ToString(r.status) \o ": Failed to create session"]_vars

\* C3, amended: the message holder shows "Failed to initialize ChatKit: "
\* followed by X, or followed by "HTTP <status>: Failed to create session"
\* when the body has no error field.
C3_ShowsPrefixedBackendMessage ==
  [][\A a \in Invocations : (FailsRetryably(a) /\ dom.message) =>
     \A r \in Responses(a) :
       (/\ ~r.net /\ ~Ok(r) /\ r.json /\ r.error # ""
        /\ Respond(a, r, FALSE)) =>
         errorText' = IF r.error # Undefined
                        THEN "Failed to initialize ChatKit: " \o r.error
                        ELSE "Failed to initialize ChatKit: HTTP " \o ToString(r.status)
                               \o ": Failed to create session"]_vars

C3_Witness ==
  /\ errorText = "Failed to initialize ChatKit: HTTP 503: Failed to create session"
  /\ \E a \in Invocations : outcome[a] = "failed"

\* C4: the container never holds more than one widget, and a mounted widget
\* is the only content of the container.
C4_AtMostOneWidgetMounted ==
  /\ Cardinality(WidgetsIn(container)) <= 1
  /\ WidgetsIn(container) # {} => Len(container) = 1

C4_Witness ==
  /\ \A a \in Invocations : outcome[a] = "mounted"
  /\ Len(container) = 1

\* C5: the sessionToken of every mounted widget is the client_secret of the
\* session issued to the invocation that created it, not that session's id
\* and not the secret issued to another invocation.
C5_TokenIsOwnClientSecret ==
  \A i \in WidgetsIn(container) :
    /\ widget[container[i]].sessionToken = SessionFor(container[i]).client_secret
    /\ widget[container[i]].sessionToken # SessionFor(container[i]).id
    /\ \A b \in Invocations \ {container[i]} :
         widget[container[i]].sessionToken # SessionFor(b).client_secret

\* the first invocation mounted after a later one: both requests were pending together
C5_Witness ==
  /\ container = <<1>>
  /\ \E b \in Invocations \ {1} : outcome[b] = "mounted"


\* the step in which invocation b is started
Starts(b) == nextId = b /\ nextId' = b + 1

\* the step in which invocation b mounts its widget
Mounts(b) == outcome[b] # "mounted" /\ outcome'[b] = "mounted"

\* C6 as stated: an invocation started after an earlier one ended in an error
\* hides the error overlay, runs the sequence from the registration poll and,
\* when it mounts, leaves exactly its own widget in the container.
C6_RestartAlwaysHidesError ==
  [][\A b \in afterFailure' :
       /\ Starts(b) =>
            /\ pc'[b] = IF registered THEN "fetch" ELSE "wait"
            /\ attempts'[b] = 0
       /\ (pc[b] # "done" /\ pc'[b] = "done") => b \in requests'
       /\ (b \in requests' \ requests /\ dom.overlay) => overlayDisplay' = "none"
       /\ Mounts(b) => container' = <<b>>]_vars

\* C6, amended: the restarted invocation runs the sequence from the
\* registration poll; it hides the error overlay in the step in which it finds
\* the element registered, and leaves the overlay as it is in the steps in
\* which it goes on waiting; when it ends without having found the element,
\* the overlay is shown; when it mounts, its widget is the whole container.
C6_RestartHidesErrorOnceRegistered ==
  [][\A b \in afterFailure' :
       /\ Starts(b) =>
            /\ pc'[b] = IF registered THEN "fetch" ELSE "wait"
            /\ attempts'[b] = 0
       /\ (pc[b] # "done" /\ pc'[b] = "done" /\ b \notin requests') =>
            /\ ~registered
            /\ dom.overlay => overlayDisplay' = "flex"
       /\ (b \in requests' \ requests) =>
            /\ registered
            /\ dom.overlay => overlayDisplay' = "none"
       /\ (pc'[b] = "wait" /\ (Starts(b) \/ attempts'[b] # attempts[b])) =>
            overlayDisplay' = overlayDisplay
       /\ Mounts(b) => container' = <<b>> /\ chatkitElement' = b]_vars

C6_Witness ==
  \E b \in afterFailure :
    /\ outcome[b] = "mounted"
    /\ container = <<b>>
    /\ overlayDisplay = "none"
    /\ errorText # ""

\* C7 as stated: two toggleTheme runs return the dark flag and the stored
\* preference to what they were before the first of them.
C7_DoubleToggleRestoresBoth ==
  Len(toggleLog) = 2 => toggleLog[1] = <<dark, stored>>

\* C7, amended: two toggleTheme runs return the dark flag to its earlier
\* value; the stored preference ends as the name of that flag value, which is
\* its earlier value exactly when the preference agreed with the flag before.
C7_DoubleToggleRestoresFlag ==
  Len(toggleLog) = 2 =>
    /\ dark = toggleLog[1][1]
    /\ stored = ThemeName(dark)
    /\ (stored = toggleLog[1][2]) <=> (toggleLog[1][2] = ThemeName(toggleLog[1][1]))

C7_Witness ==
  /\ Len(toggleLog) = 2
  /\ toggleLog[1][2] = Undefined
  /\ stored = "light"

\* C8 as stated: once an invocation has ended at the polling ceiling, no
\* later step issues a session request or mounts a widget.
C8_TimeoutIsTerminal ==
  [][(\E a \in Invocations : outcome[a] = "timeout") =>
       /\ requests' = requests
       /\ container' = container]_vars

\* C8, amended: the invocation that ended at the polling ceiling never issues
\* a session request or creates a widget itself, and while the element is
\* unregistered nobody does; other invocations do once it registers.
C8_NoSessionWhileUnregistered ==
  /\ \A a \in Invocations :
       outcome[a] = "timeout" => (a \notin requests /\ ~widget[a].created)
  /\ ~registered =>
       /\ requests = {}
       /\ chatkitElement = Null
       /\ WidgetsIn(container) = {}

C8_Witness ==
  \E a, b \in Invocations :
    /\ outcome[a] = "timeout"
    /\ a < b
    /\ b \in requests
    /\ outcome[b] = "mounted"

\* C9 as stated: toggleTheme never runs and no further invocation is started
\* while an invocation is suspended, and at most one invocation is in flight.
C9_HandlersNeverOverlap ==
  [][/\ (toggleLog' # toggleLog \/ nextId' # nextId) => InFlight = {}
     /\ Cardinality(InFlight') <= 1]_vars

\* C9, amended: toggleTheme and further invocations do run while an
\* invocation is suspended at its wait or its request; such a step leaves the
\* position, the counter and the outcome of every suspended invocation as
\* they were.
C9_HandlersLeaveSuspendedAlone ==
  [][(toggleLog' # toggleLog \/ nextId' # nextId) =>
       \A a \in InFlight :
         /\ pc'[a] = pc[a]
         /\ attempts'[a] = attempts[a]
         /\ outcome'[a] = outcome[a]
         /\ (a \in requests') <=> (a \in requests)]_vars

C9_Witness ==
  /\ Cardinality(InFlight) >= 2
  /\ toggleLog # <<>>

\* C10: once a later invocation B has mounted its widget, neither the
\* container content nor chatkitElement is replaced by the widget of an
\* invocation A started before B.
C10_StaleNeverOverwrites ==
  [][\A A, B \in Invocations :
       (A < B /\ outcome[B] = "mounted") =>
          /\ (container' = <<A>>) => (container = <<A>>)
          /\ (chatkitElement' = A) => (chatkitElement = A)]_vars


\* the step in which the session request of invocation a settles
Settles(a) == pc[a] = "fetch" /\ pc'[a] # "fetch"

\* C11: whatever fails once the component was found (the request is rejected,
\* the status is not a success, a body does not parse, the widget's setter
\* throws), the request settles without a widget carrying a session token;
\* the invocation then ends in that same step with the error overlay shown,
\* the message prefixed by the catch block, the retry control not hidden and
\* its click handler set to initChatKit.
C11_FailuresAreCaughtAndRetryable ==
  [][\A a \in Invocations :
       (Settles(a) /\ widget'[a].sessionToken = Undefined) =>
          /\ pc'[a] = "done"
          /\ container' = container
          /\ dom.overlay => overlayDisplay' = "flex"
          /\ dom.message =>
               \E m \in {"Failed to fetch", ParseMsg, SetterMsg, "Invalid workflow",
                         "HTTP 400: Failed to create session",
                         "HTTP 503: Failed to create session"} :
                 errorText' = "Failed to initialize ChatKit: " \o m
          /\ dom.retry => (retryDisplay' # "none" /\ retryOnclick' = "initChatKit")]_vars

C11_Witness ==
  /\ errorText = "Failed to initialize ChatKit: Failed to fetch"
  /\ overlayDisplay = "flex"
  /\ retryDisplay # "none"
  /\ retryOnclick = "initChatKit"
  /\ \E a \in Invocations : pc[a] = "done" /\ a \in requests /\ ~widget[a].created


\* the step in which the timer of invocation a fires and a checks the registration again
Rechecks(a) ==
  /\ pc[a] = "wait"
  /\ pc'[a] # "wait" \/ attempts'[a] # attempts[a]

\* C12: an invocation waits at most 50 times; at each check (on entry and after
\* every wait, the one after the 50th included) a registered element makes it
\* stop waiting, hide the error and request the session; an unregistered
\* element makes it wait once more while fewer than 50 waits are done, and
\* report the component timeout after the 50th.
C12_PollsAtMostFiftyTimes ==
  [][\A a \in Invocations :
       /\ pc'[a] = "wait" => attempts'[a] < 50
       /\ (Starts(a) \/ Rechecks(a)) =>
            /\ registered =>
                 /\ pc'[a] = "fetch"
                 /\ a \in requests'
                 /\ dom.overlay => overlayDisplay' = "none"
            /\ (~registered /\ Starts(a)) =>
                 /\ pc'[a] = "wait"
                 /\ attempts'[a] = 0
            /\ (~registered /\ Rechecks(a) /\ attempts[a] < 49) =>
                 /\ pc'[a] = "wait"
                 /\ attempts'[a] = attempts[a] + 1
            /\ (~registered /\ Rechecks(a) /\ attempts[a] = 49) =>
                 /\ pc'[a] = "done"
                 /\ a \notin requests'
                 /\ dom.message => errorText' = ComponentMsg
       /\ (dom.message /\ errorText' = ComponentMsg /\ errorText # ComponentMsg) =>
            \E b \in Invocations : Rechecks(b) /\ attempts[b] = 49 /\ ~registered]_vars

\* the element registered during the 50th wait of an invocation
C12_Witness ==
  \E a \in Invocations :
    /\ pc[a] = "wait"
    /\ attempts[a] = 49
    /\ registered
    /\ a \notin requests


\* C13: when the response has a non-success status and a body that does not
\* parse as JSON, createSession fails with "HTTP <status>: Failed to create
\* session", the message it has for a parsed body without an error field
\* (the catch of initChatKit shows it behind its prefix).
C13_UnparseableBodyGetsFallback ==
  [][\A a \in Invocations : (Settles(a) /\ dom.message) =>
       \A r \in Responses(a) :
         (/\ ~r.net /\ ~Ok(r) /\ ~r.json
          /\ Respond(a, r, FALSE)) =>
            /\ createSession(r).message =
                 "HTTP " \o ToString(r.status) \o ": Failed to create session"
            /\ errorText' = "Failed to initialize ChatKit: HTTP " \o ToString(r.status)
                              \o ": Failed to create session"]_vars


\* C14: an attempt that fails at session creation leaves the mount state as
\* it was: neither its start, nor its polling steps, nor the step in which
\* its request fails changes the container's content, the chatkitElement
\* reference or any widget; the container's content changes only in the step
\* in which an attempt mounts its widget, so a widget mounted earlier stays
\* mounted until then.
C14_FailedSessionKeepsMountState ==
  [][/\ \A a \in Invocations :
          (\/ Starts(a)
           \/ Rechecks(a)
           \/ (Settles(a) /\ outcome'[a] = "failed" /\ ~widget'[a].created)) =>
             /\ container' = container
             /\ chatkitElement' = chatkitElement
             /\ widget' = widget
     /\ container' # container =>
          \E b \in Invocations : Mounts(b) /\ container' = <<b>>]_vars

\* a widget mounted by the first attempt is still the container's content and
\* the retained reference, under the error of the second attempt, whose
\* session request failed
C14_Witness ==
  /\ outcome[1] = "mounted" /\ outcome[2] = "failed" /\ ~widget[2].created
  /\ container = <<1>> /\ chatkitElement = 1
  /\ dom.overlay /\ overlayDisplay = "flex"


\* C15: for every stored preference, OS signal and initial document flag,
\* after initializeTheme (the step that makes the page ready) the dark flag
\* is set exactly when the resolved mode is dark, i.e. the stored preference
\* is "dark" or nothing is stored and the OS prefers dark; storage is not
\* written.
C15_FlagIsResolvedMode ==
  [][(phase # "ready" /\ phase' = "ready") =>
       /\ dark' = (stored = "dark" \/ (stored = Undefined /\ prefersDark))
       /\ stored' = stored]_vars


\* C16: in every state between handler executions, a widget mounted in the
\* container has theme "dark" when the document flag is set and "light"
\* otherwise, and once toggleTheme has run the stored preference is that same
\* value, whatever the interleaving of toggles and initChatKit attempts.
C16_MountedThemeFollowsFlag ==
  /\ \A i \in WidgetsIn(container) : widget[container[i]].theme = ThemeName(dark)
  /\ toggleLog # <<>> => stored = ThemeName(dark)

\* C17: when the container exists, in every state between handler executions
\* chatkitElement is null exactly when no widget is mounted, and otherwise
\* it is the one widget in the container.
C17_ReferenceIsMountedWidget ==
  dom.container =>
    /\ chatkitElement = Null <=> WidgetsIn(container) = {}
    /\ chatkitElement # Null => container = <<chatkitElement>>


====
